---------------------------- MODULE Spec2Model ----------------------------
(***************************************************************************)
(* Model of src/main.py: the relic profit calculator.                      *)
(*                                                                         *)
(* main() runs, in order: the two fetch phases get_all_info("statistics")  *)
(* and get_all_info("orders"), each a pool of concurrent get_info tasks    *)
(* gated by one asyncio.Semaphore, then calculate_relic_values(), then     *)
(* open_menu().                                                            *)
(*                                                                         *)
(* Representation.                                                         *)
(*  - A name (relic or item) is a string: "Lith A1 Intact". The code       *)
(*    looks into it with `in`, split and join, and so does the model.      *)
(*  - A Python dict is a function. The elements of statistics.json and of  *)
(*    orders.json, JSON objects, are sequences of <<key, value>> pairs in  *)
(*    file order; {} is the empty sequence.                                *)
(*  - A Python float is a record [k, n]: k = "fin" with n the number in    *)
(*    fixed point, k = "inf" for float("inf"), k = "nan" for nan.          *)
(*    Price estimates (median_plat) and profit ratios are counted in       *)
(*    hundredths of a platinum, relic values in ten-thousandths, which is  *)
(*    exact where the doubles of Python are rounded. Where the rounding    *)
(*    decides (a ratio halfway between two hundredths, two values that are *)
(*    one decimal and two doubles) the doubles are computed.               *)
(*  - list.sort is stable and compares with <. Keys with a nan among them  *)
(*    that < does not order come out in an order that depends on the       *)
(*    interpreter: any order, and the same one whenever the same           *)
(*    interpreter sorts the same keys again (nan_orders).                  *)
(*  - A file is a record [state, content]: absent, empty ("") or data.     *)
(*  - The url of a request (urlName) is not modelled: a request is known   *)
(*    by the name of its entity.                                           *)
(***************************************************************************)
EXTENDS Integers, Sequences, FiniteSets, TLC

VARIABLES
    pool_size,          \* main(pool_size): the size of the semaphore
    nan_orders,         \* the interpreter: how its sort ordered keys < does not
    now,                \* time.time(), in seconds
    feed,               \* the drop table the drops server answers with
    sem,                \* asyncio.Semaphore: permits currently free
    needs_update,       \* main: the result of check_update()
    main_pc,            \* main's position
    gathering,          \* main is suspended in get_all_info's gather
    item_api_uri,       \* get_all_info: the uri the tasks were created for
    tasks,              \* get_all_info: names of the tasks, in creation order
    pc,                 \* per task: waiting / inflight / sleeping / done
    sent,               \* per task: requests issued by get_info (saturating)
    throttles,          \* per task: 429 answers received (saturating)
    results,            \* per task: what safe_get_info returned
    res,                \* gather: the tasks in the order they completed
    policy,             \* the market server's final answer per entity
    relics_json,        \* file relics.json: the relic catalog
    items_json,         \* file items.json: the item catalog
    statistics_json,    \* file statistics.json
    orders_json,        \* file orders.json
    sorted_relics_json, \* file sorted_relics.json
    profit_relics_json, \* file profit_relics.json
    median_plat,        \* calculate_relic_values: the price estimates
    live,               \* calculate_relic_values: the mode it ran in
    fault               \* the exception that ended the run, or "none"

vars == <<pool_size, nan_orders, now, feed, sem, needs_update, main_pc, gathering, item_api_uri,
          tasks, pc, sent,
          throttles, results, res, policy, relics_json, items_json,
          statistics_json, orders_json, sorted_relics_json,
          profit_relics_json, median_plat, live, fault>>

\* what a run of main is given: its argument, the interpreter, the clock,
\* the drops server
runVars == <<pool_size, nan_orders, now, feed>>
fetchVars == <<sem, item_api_uri, tasks, pc, sent, throttles, results, res,
               policy>>
fileVars == <<relics_json, items_json, statistics_json, orders_json,
              sorted_relics_json, profit_relics_json>>
calcVars == <<median_plat, live>>

-----------------------------------------------------------------------------
(* Bounds of the model *)

\* largest pool size main is started with
MaxPool == 2
\* most 429 answers the server gives an entity it does not throttle for ever
MaxBurst == 1

(* Program constants *)

\* item_statistics[0:7]
WeekLen == 7
\* status codes tested by get_info
Throttled == 429
Ok == 200
\* a status that is neither 200 nor 429 (all of them take the same branch)
ErrorStatuses == {404}

-----------------------------------------------------------------------------
(* Python floats *)

Fin(n) == [k |-> "fin", n |-> n]
Inf == [k |-> "inf", n |-> 0]
NaN == [k |-> "nan", n |-> 0]

\* a < b on floats: every comparison with nan is False
FLt(a, b) ==
    IF a.k = "nan" \/ b.k = "nan" THEN FALSE
    ELSE IF a.k = "inf" THEN FALSE
    ELSE IF b.k = "inf" THEN TRUE
    ELSE a.n < b.n

\* a + b
FAdd(a, b) ==
    IF a.k = "nan" \/ b.k = "nan" THEN NaN
    ELSE IF a.k = "inf" \/ b.k = "inf" THEN Inf
    ELSE Fin(a.n + b.n)

\* price * chance / 100: a price in hundredths, a chance in percent, the
\* product in ten-thousandths; inf * 0 is nan
FMulChance(price, chance) ==
    IF price.k = "nan" THEN NaN
    ELSE IF price.k = "inf" THEN (IF chance = 0 THEN NaN ELSE Inf)
    ELSE Fin(price.n * chance)

\* the integer nearest to a / b, for a >= 0, b > 0 and a quotient that is
\* not halfway between two integers
RoundDiv(a, b) == IF 2 * (a % b) < b THEN a \div b ELSE (a \div b) + 1

Min(a, b) == IF a < b THEN a ELSE b
Max(a, b) == IF a < b THEN b ELSE a

-----------------------------------------------------------------------------
(* The doubles behind the floats. Counting in hundredths and ten-thousandths
   is exact; Python rounds every product, quotient and sum to a double. The
   two agree except where a ratio lies halfway between two hundredths, and
   where two values that are the same decimal are different doubles: there
   the doubles are computed, bit by bit. *)

\* bits of the significand of a double
Precision == 53

\* A natural number in binary: a sequence of 0 and 1, the most significant
\* first; leading zeros are allowed, <<>> is 0. The operations split their
\* operands in halves and pass the carry from one half to the other.
Strip(bits) ==
    LET ones == {i \in 1..Len(bits) : bits[i] = 1}
    IN  IF ones = {} THEN <<>>
        ELSE SubSeq(bits, CHOOSE i \in ones : \A j \in ones : i <= j, Len(bits))

Zeros(k) == [i \in 1..k |-> 0]

Front(s) == SubSeq(s, 1, Len(s) - 1)

Reverse(s) == [i \in 1..Len(s) |-> s[Len(s) + 1 - i]]

RECURSIVE BitsOf(_)
BitsOf(n) == IF n = 0 THEN <<>> ELSE Append(BitsOf(n \div 2), n % 2)

\* digits * c + carry, for small numbers c and carry and binary digits
\* given the least significant first: as many digits, and the carry out
RECURSIVE MulCarry(_, _, _)
MulCarry(digits, c, carry) ==
    IF digits = <<>> THEN [digits |-> <<>>, carry |-> carry]
    ELSE IF Len(digits) = 1
    THEN [digits |-> <<(digits[1] * c + carry) % 2>>,
          carry |-> (digits[1] * c + carry) \div 2]
    ELSE LET h == Len(digits) \div 2
             low == MulCarry(SubSeq(digits, 1, h), c, carry)
             high == MulCarry(SubSeq(digits, h + 1, Len(digits)), c, low.carry)
         IN  [digits |-> low.digits \o high.digits, carry |-> high.carry]

\* bits * c + carry
MulBits(bits, c, carry) ==
    LET product == MulCarry(Reverse(bits), c, carry)
    IN  BitsOf(product.carry) \o Reverse(product.digits)

\* (r * 2^len + bits) divided by a small number c > r: quotient (as long as
\* bits) and remainder
RECURSIVE DivRem(_, _, _)
DivRem(bits, c, r) ==
    IF bits = <<>> THEN [q |-> <<>>, r |-> r]
    ELSE IF Len(bits) = 1
    THEN LET t == 2 * r + bits[1]
         IN  [q |-> <<IF t >= c THEN 1 ELSE 0>>, r |-> IF t >= c THEN t - c ELSE t]
    ELSE LET h == Len(bits) \div 2
             high == DivRem(SubSeq(bits, 1, h), c, r)
             low == DivRem(SubSeq(bits, h + 1, Len(bits)), c, high.r)
         IN  [q |-> high.q \o low.q, r |-> low.r]

DivBits(bits, c) == DivRem(bits, c, 0)

\* -1, 0 or 1 as a < b, a = b or a > b
CmpBits(a, b) ==
    LET x == Strip(a)
        y == Strip(b)
    IN  IF Len(x) # Len(y) THEN (IF Len(x) < Len(y) THEN -1 ELSE 1)
        ELSE IF x = y THEN 0
        ELSE LET i == CHOOSE i \in 1..Len(x) :
                          x[i] # y[i] /\ \A j \in 1..(i - 1) : x[j] = y[j]
             IN  IF x[i] < y[i] THEN -1 ELSE 1

Pad(bits, n) == Zeros(n - Len(bits)) \o bits

\* a + b + carry for digits a and b, as many of the one as of the other,
\* the least significant first: as many digits, and the carry out
RECURSIVE AddCarry(_, _, _)
AddCarry(a, b, carry) ==
    IF a = <<>> THEN [digits |-> <<>>, carry |-> carry]
    ELSE IF Len(a) = 1
    THEN [digits |-> <<(a[1] + b[1] + carry) % 2>>,
          carry |-> (a[1] + b[1] + carry) \div 2]
    ELSE LET h == Len(a) \div 2
             low == AddCarry(SubSeq(a, 1, h), SubSeq(b, 1, h), carry)
             high == AddCarry(SubSeq(a, h + 1, Len(a)), SubSeq(b, h + 1, Len(b)),
                              low.carry)
         IN  [digits |-> low.digits \o high.digits, carry |-> high.carry]

\* a + b
AddBits(a, b) ==
    LET n == Max(Len(a), Len(b))
        sum == AddCarry(Reverse(Pad(a, n)), Reverse(Pad(b, n)), 0)
    IN  <<sum.carry>> \o Reverse(sum.digits)

\* a - b - borrow for digits a and b, as many of the one as of the other,
\* the least significant first: as many digits, and the borrow out
RECURSIVE SubBorrow(_, _, _)
SubBorrow(a, b, borrow) ==
    IF a = <<>> THEN [digits |-> <<>>, borrow |-> borrow]
    ELSE IF Len(a) = 1
    THEN LET t == a[1] - b[1] - borrow
         IN  [digits |-> <<IF t < 0 THEN t + 2 ELSE t>>,
              borrow |-> IF t < 0 THEN 1 ELSE 0]
    ELSE LET h == Len(a) \div 2
             low == SubBorrow(SubSeq(a, 1, h), SubSeq(b, 1, h), borrow)
             high == SubBorrow(SubSeq(a, h + 1, Len(a)), SubSeq(b, h + 1, Len(b)),
                               low.borrow)
         IN  [digits |-> low.digits \o high.digits, borrow |-> high.borrow]

\* a - b, for a >= b
SubBits(a, b) ==
    LET n == Max(Len(a), Len(b))
    IN  Reverse(SubBorrow(Reverse(Pad(a, n)), Reverse(Pad(b, n)), 0).digits)

\* (r * 2^len + bits) divided by the number d > r: quotient (as long as
\* bits) and remainder
RECURSIVE DivLongRem(_, _, _)
DivLongRem(bits, d, r) ==
    IF bits = <<>> THEN [q |-> <<>>, r |-> r]
    ELSE IF Len(bits) = 1
    THEN LET t == Strip(Append(r, bits[1]))
             fits == CmpBits(t, d) >= 0
         IN  [q |-> <<IF fits THEN 1 ELSE 0>>,
              r |-> IF fits THEN Strip(SubBits(t, d)) ELSE t]
    ELSE LET h == Len(bits) \div 2
             high == DivLongRem(SubSeq(bits, 1, h), d, r)
             low == DivLongRem(SubSeq(bits, h + 1, Len(bits)), d, high.r)
         IN  [q |-> high.q \o low.q, r |-> low.r]

DivLong(bits, d) == DivLongRem(bits, d, <<>>)

\* A double that is finite and not negative: [bits, exp] is the number
\* bits * 2^exp, bits its significand of 53 bits, the first of them 1.
\* 0.0 has no bits.
DZero == [bits |-> <<>>, exp |-> 0]

\* the double nearest to the number bits * 2^exp + f, where 0 < f < 2^exp
\* if more and f = 0 if not: round to nearest, ties to even
DRound(bits, exp, more) ==
    LET b == Strip(bits)
        n == Len(b)
    IN  IF n = 0 THEN DZero
        ELSE IF n <= Precision
        THEN [bits |-> b \o Zeros(Precision - n), exp |-> exp - (Precision - n)]
        ELSE LET kept == SubSeq(b, 1, Precision)
                 rest == more \/ \E i \in (Precision + 2)..n : b[i] = 1
                 up == b[Precision + 1] = 1 /\ (rest \/ kept[Precision] = 1)
                 m == IF up THEN MulBits(kept, 1, 1) ELSE kept
             IN  IF Len(m) > Precision
                 THEN [bits |-> SubSeq(m, 1, Precision), exp |-> exp + n - Precision + 1]
                 ELSE [bits |-> m, exp |-> exp + n - Precision]

\* the double nearest to n / d, for small numbers n >= 0 and d > 0: the
\* float a decimal literal is read as, and int / int
DOfRatio(n, d) ==
    LET r == DivBits(BitsOf(n) \o Zeros(2 * Precision), d)
    IN  DRound(r.q, -(2 * Precision), r.r # 0)

\* x * c for an int c >= 0
DMulInt(x, c) == DRound(MulBits(x.bits, c, 0), x.exp, FALSE)

\* x / c for an int c > 0
DDivInt(x, c) ==
    LET r == DivBits(x.bits \o Zeros(Precision), c)
    IN  DRound(r.q, x.exp - Precision, r.r # 0)

\* x + y
DAdd(x, y) ==
    IF x = DZero THEN y
    ELSE IF y = DZero THEN x
    ELSE LET e == Min(x.exp, y.exp)
         IN  DRound(AddBits(x.bits \o Zeros(x.exp - e), y.bits \o Zeros(y.exp - e)),
                    e, FALSE)

\* x / y for y that is not 0
DDiv(x, y) ==
    LET r == DivLong(x.bits \o Zeros(Precision + 3), y.bits)
    IN  DRound(r.q, x.exp - (Precision + 3) - y.exp, r.r # <<>>)

\* -1, 0 or 1 as x < y, x = y or x > y
DCmp(x, y) ==
    IF x = DZero \/ y = DZero THEN CmpBits(x.bits, y.bits)
    ELSE LET e == Min(x.exp, y.exp)
         IN  CmpBits(x.bits \o Zeros(x.exp - e), y.bits \o Zeros(y.exp - e))

\* -1, 0 or 1 as x < n / d, x = n / d or x > n / d, for small n >= 0, d > 0
DCmpRatio(x, n, d) ==
    IF x.exp >= 0
    THEN CmpBits(MulBits(x.bits, d, 0) \o Zeros(x.exp), BitsOf(n))
    ELSE CmpBits(MulBits(x.bits, d, 0), BitsOf(n) \o Zeros(-x.exp))

\* round(value / price, 2) for a price that is not zero: a value in
\* ten-thousandths over a price in hundredths is a ratio in hundredths.
\* float is the double the value is. A ratio halfway between two
\* hundredths goes where the quotient of the doubles lies, and to the even
\* hundredth when that is halfway too.
FDivRound(value, price, float) ==
    IF value.k = "nan" \/ price.k = "nan" THEN NaN
    ELSE IF price.k = "inf" THEN (IF value.k = "inf" THEN NaN ELSE Fin(0))
    ELSE IF value.k = "inf" THEN Inf
    ELSE IF 2 * (value.n % price.n) # price.n
    THEN Fin(RoundDiv(value.n, price.n))
    ELSE LET low == value.n \div price.n
             side == DCmpRatio(DDiv(float, DOfRatio(price.n, 100)), 2 * low + 1, 200)
         IN  Fin(IF side > 0 \/ (side = 0 /\ low % 2 = 1) THEN low + 1 ELSE low)

-----------------------------------------------------------------------------
(* Sequences and dicts *)


RECURSIVE SumSeq(_)
SumSeq(s) == IF s = <<>> THEN 0 ELSE Head(s) + SumSeq(Tail(s))

\* a and b are not ordered by <: they are equal, or one of them is nan
Unordered(a, b) == ~FLt(a, b) /\ ~FLt(b, a)

\* < orders the keys as a sort expects it to: keys that are not ordered are
\* equal in every comparison. So it is without a nan, and with one when all
\* the other keys are equal.
IsWeakOrder(keys) ==
    \A i, j, k \in 1..Len(keys) :
        (Unordered(keys[i], keys[j]) /\ Unordered(keys[j], keys[k]))
            => Unordered(keys[i], keys[k])

\* the list s in the order p: the element at position p[i] comes i-th
Permute(s, p) == [i \in 1..Len(p) |-> s[p[i]]]

AllOrders(n) ==
    {p \in [1..n -> 1..n] : \A i, j \in 1..n : p[i] = p[j] => i = j}

\* the stable order of keys that < orders: smaller keys first (greater first
\* when reversed), keys that are equal in the order they stood in
StableOrder(keys, reverse) ==
    LET lt(i, j) == IF reverse THEN FLt(keys[j], keys[i]) ELSE FLt(keys[i], keys[j])
        ahead(i) == {j \in 1..Len(keys) : lt(j, i) \/ (j < i /\ ~lt(i, j))}
    IN  [r \in 1..Len(keys) |->
            CHOOSE i \in 1..Len(keys) : Cardinality(ahead(i)) = r - 1]

\* list.sort(key=..., reverse=...) on a list with these keys: the orders it
\* can leave the list in. The sort is stable and compares keys with < only.
\* Where < does not order the keys (a nan among keys that differ) the order
\* depends on the comparisons the interpreter's sort happens to make, and
\* differs between interpreters: any order can come out.
SortOrders(keys, reverse) ==
    IF IsWeakOrder(keys) THEN {StableOrder(keys, reverse)}
    ELSE AllOrders(Len(keys))

\* what is known of the interpreter's sort after it ordered these keys so
\* (nothing new when < orders them)
SortNote(keys, p) == IF IsWeakOrder(keys) THEN {} ELSE {<<keys, p>>}

\* the interpreter orders a list of keys in the same way however often it
\* sorts it
IsOneSort(notes) == \A a, b \in notes : a[1] = b[1] => a[2] = b[2]

\* {}, the element of a snapshot for an entity without data
NoData == <<>>

\* {item: info["payload"]}, the element for an entity with data
Info(item, payload) == << <<item, payload>> >>

\* the keys of one element
Keys(element) == {element[j][1] : j \in 1..Len(element)}

\* the <<key, value>> pairs of a list of elements, in the order the loop
\* `for e in list: d.update(e)` meets them
RECURSIVE Pairs(_)
Pairs(dicts) ==
    IF dicts = <<>> THEN <<>> ELSE Head(dicts) \o Pairs(Tail(dicts))

\* d.update(e) for every e of a list of elements, in order: the dict built,
\* a key met again taking the later value
UpdateAll(dicts) ==
    LET ps == Pairs(dicts)
        last(k) == CHOOSE i \in 1..Len(ps) :
                       /\ ps[i][1] = k
                       /\ \A j \in (i + 1)..Len(ps) : ps[j][1] # k
    IN  [k \in {ps[i][1] : i \in 1..Len(ps)} |-> ps[last(k)][2]]

\* the keys of that dict in iteration order: a key stands where it was
\* first inserted
KeyOrder(dicts) ==
    LET ps == Pairs(dicts)
        first == SelectSeq([i \in 1..Len(ps) |-> i],
                           LAMBDA i : \A j \in 1..(i - 1) : ps[j][1] # ps[i][1])
    IN  [n \in 1..Len(first) |-> ps[first[n]][1]]

-----------------------------------------------------------------------------
(* Files *)

Absent == [state |-> "absent", content |-> <<>>]
EmptyFile == [state |-> "empty", content |-> <<>>]
Data(c) == [state |-> "data", content |-> c]
\* text that is not empty and that json.loads does not parse
Garbage == [state |-> "garbage", content |-> <<>>]
\* relics.json as get_relics writes it: the catalog and a timestamp
Stamped(c, t) == [state |-> "data", content |-> c, timestamp |-> t]

\* the test every stage makes: the file is missing, or its text is ""
MissingOrEmpty(file) == file.state \in {"absent", "empty"}

\* open(file, "r") and json.loads of its text: the exception they raise,
\* FileNotFoundError for a missing file, JSONDecodeError for a text ("" as
\* well) that is not JSON
ReadFault(file) ==
    IF file.state = "absent" THEN "FileNotFoundError"
    ELSE IF file.state # "data" THEN "JSONDecodeError"
    ELSE "none"

-----------------------------------------------------------------------------
(* Catalog *)

\* A name is a str: a string, the sequence of its characters.

\* " ".join(words)
RECURSIVE Join(_)
Join(words) ==
    IF words = <<>> THEN ""
    ELSE IF Len(words) = 1 THEN words[1]
    ELSE words[1] \o " " \o Join(Tail(words))

\* str.split(" "): the words between the spaces, empty ones included
RECURSIVE Split(_)
Split(str) ==
    LET spaces == {i \in 1..Len(str) : SubSeq(str, i, i) = " "}
    IN  IF spaces = {} THEN <<str>>
        ELSE LET i == CHOOSE i \in spaces : \A j \in spaces : i <= j
             IN  <<SubSeq(str, 1, i - 1)>> \o Split(SubSeq(str, i + 1, Len(str)))

\* sub in str
Contains(str, sub) ==
    \E i \in 0..(Len(str) - Len(sub)) : SubSeq(str, i + 1, i + Len(sub)) = sub

\* "Intact" in relic[0]
IsIntact(name) == Contains(name, "Intact")

\* " ".join(relic[0].split(" ")[0:2]) + " Intact"
IntactName(name) ==
    LET words == Split(name)
    IN  Join(SubSeq(words, 1, Min(2, Len(words)))) \o " Intact"

\* the same with a later occurrence of an item name replacing its entry
RECURSIVE ItemsOfRewardsLast(_, _)
ItemsOfRewardsLast(items, rewards) ==
    IF rewards = <<>> THEN items
    ELSE LET reward == Head(rewards)
             entry == [itemName |-> reward.itemName, rarity |-> reward.rarity,
                       chance |-> reward.chance]
             at == {i \in 1..Len(items) : items[i].itemName = reward.itemName}
         IN  ItemsOfRewardsLast(
                 IF at = {} THEN Append(items, entry)
                 ELSE [items EXCEPT ![CHOOSE i \in at : TRUE] = entry],
                 Tail(rewards))

\* get_items: the items of the relics' rewards, the first occurrence of an
\* item name fixing its entry, in first-seen order
RECURSIVE ItemsOfRewards(_, _)
ItemsOfRewards(items, rewards) ==
    IF rewards = <<>> THEN items
    ELSE LET reward == Head(rewards)
             seen == \E i \in 1..Len(items) : items[i].itemName = reward.itemName
         IN  ItemsOfRewards(
                 IF seen THEN items
                 ELSE Append(items, [itemName |-> reward.itemName,
                                     rarity |-> reward.rarity,
                                     chance |-> reward.chance]),
                 Tail(rewards))

RECURSIVE ItemsOfRelics(_, _)
ItemsOfRelics(items, relics) ==
    IF relics = <<>> THEN items
    ELSE ItemsOfRelics(ItemsOfRewards(items, Head(relics).rewards), Tail(relics))

GetItems(relics) == ItemsOfRelics(<<>>, relics)

\* the same with one task per relic, whatever its state
EntityListAll(relics, items) ==
    [i \in 1..Len(relics) |-> relics[i].relicName]
        \o [i \in 1..Len(items) |-> items[i].itemName]

\* get_all_info: one task per Intact relic, then one per item
EntityList(relics, items) ==
    LET intact == SelectSeq(relics, LAMBDA r : IsIntact(r.relicName))
    IN  [i \in 1..Len(intact) |-> intact[i].relicName]
        \o [i \in 1..Len(items) |-> items[i].itemName]

-----------------------------------------------------------------------------
(* Price estimates *)

\* item_statistics.sort(key=lambda x: x["datetime"])
SortByDate(window) ==
    Permute(window, StableOrder([i \in 1..Len(window) |-> Fin(window[i].datetime)],
                                FALSE))

\* the same with the 7 most recent entries
StatisticsPriceRecent(window) ==
    LET item_statistics == SortByDate(window)
        n == Len(item_statistics)
        week == SubSeq(item_statistics, n - Min(WeekLen, n) + 1, n)
        all_medians == [i \in 1..Len(week) |-> week[i].median]
    IN  IF all_medians = <<>> THEN Inf
        ELSE Fin(RoundDiv(100 * SumSeq(all_medians), Len(all_medians)))

\* the statistics branch for one item: the 90 days window sorted by date,
\* its first 7 entries, the mean of their medians rounded to 2 decimals
StatisticsPrice(window) ==
    LET item_statistics == SortByDate(window)
        week == SubSeq(item_statistics, 1, Min(WeekLen, Len(item_statistics)))
        all_medians == [i \in 1..Len(week) |-> week[i].median]
    IN  IF all_medians = <<>> THEN Inf
        ELSE Fin(RoundDiv(100 * SumSeq(all_medians), Len(all_medians)))

\* the live branch for one item: the prices of its sell orders, and
\* all_plat.sort()
SellPrices(orders) ==
    LET sells == SelectSeq(orders, LAMBDA o : o.order_type = "sell")
        all_plat == [i \in 1..Len(sells) |-> sells[i].platinum]
    IN  Permute(all_plat, StableOrder([i \in 1..Len(all_plat) |-> Fin(all_plat[i])],
                                      FALSE))

\* the lower of the two middle prices of an even number of prices
LivePriceLower(all_plat) == Fin(100 * all_plat[((Len(all_plat) - 1) \div 2) + 1])

\* all_plat[len(all_plat) // 2], for a list that is not empty
LivePrice(all_plat) == Fin(100 * all_plat[(Len(all_plat) \div 2) + 1])

\* the live loop over order_dict in iteration order: an item without sell
\* orders raises IndexError after its entry was set to 0
RECURSIVE LiveLoop(_, _)
LiveLoop(keys, order_dict) ==
    IF keys = <<>> THEN [mp |-> NoData, fault |-> "none"]
    ELSE LET prev == LiveLoop(SubSeq(keys, 1, Len(keys) - 1), order_dict)
             item == keys[Len(keys)]
             all_plat == SellPrices(order_dict[item])
         IN  IF prev.fault # "none" THEN prev
             ELSE IF all_plat = <<>>
                  THEN [mp |-> (item :> Fin(0)) @@ prev.mp, fault |-> "IndexError"]
                  ELSE [mp |-> (item :> LivePrice(all_plat)) @@ prev.mp,
                        fault |-> "none"]

StatisticsLoop(statistics_dict) ==
    [mp |-> [item \in DOMAIN statistics_dict |->
                StatisticsPrice(statistics_dict[item])],
     fault |-> "none"]

-----------------------------------------------------------------------------
(* Relic values and rankings *)

\* value += median_plat[itemName] * chance / 100 for the rewards priced
RECURSIVE AddRewards(_, _, _)
AddRewards(value, rewards, mp) ==
    IF rewards = <<>> THEN value
    ELSE LET reward == Head(rewards)
         IN  AddRewards(
                 IF reward.itemName \in DOMAIN mp
                 THEN FAdd(value, FMulChance(mp[reward.itemName], reward.chance))
                 ELSE value,
                 Tail(rewards), mp)

NewRelics(relics, mp) ==
    [i \in 1..Len(relics) |->
        [relics[i] EXCEPT !.value = AddRewards(relics[i].value, relics[i].rewards, mp)]]

\* the double relic["value"] is after value += median_plat[itemName] *
\* chance / 100 for the rewards priced, each operation rounded
RECURSIVE AddRewardsFloat(_, _, _)
AddRewardsFloat(float, rewards, mp) ==
    IF rewards = <<>> THEN float
    ELSE LET reward == Head(rewards)
         IN  AddRewardsFloat(
                 IF reward.itemName \in DOMAIN mp
                 THEN DAdd(float, DDivInt(DMulInt(DOfRatio(mp[reward.itemName].n, 100),
                                                  reward.chance), 100))
                 ELSE float,
                 Tail(rewards), mp)

\* the double the finite value of a relic of relics.json becomes
FloatValue(relic, mp) ==
    AddRewardsFloat(DOfRatio(relic.value.n, 10000), relic.rewards, mp)

\* The keys of the sort of the relics, as < compares them: the values,
\* and values that are the same decimal in the order of their doubles
\* (the value n with k doubles of the same decimal below it is the key
\* n * (len + 1) + k).
ValueKeys(relics, mp) ==
    LET new_relics == NewRelics(relics, mp)
        value(i) == new_relics[i].value
        below(i) == {j \in 1..Len(relics) :
                        /\ j # i
                        /\ value(j) = value(i)
                        /\ DCmp(FloatValue(relics[j], mp), FloatValue(relics[i], mp)) < 0}
    IN  [i \in 1..Len(relics) |->
            IF value(i).k = "fin"
            THEN Fin(value(i).n * (Len(relics) + 1) + Cardinality(below(i)))
            ELSE value(i)]

\* sorted_relics.sort(key=lambda x: x[1]["value"], reverse=True): the
\* orders it can leave the relics in
SortedRelics(relics, mp) == SortOrders(ValueKeys(relics, mp), TRUE)

\* value_divided_by_price.sort(key=lambda x: x[1], reverse=True): the
\* orders it can leave the rows in
SortedProfit(rows) ==
    SortOrders([i \in 1..Len(rows) |-> rows[i][2]], TRUE)

\* the profit loop over sorted_relics: KeyError when the Intact variant has
\* no estimate, ZeroDivisionError when its estimate is 0
\* (sorted_relics are the relics of relics.json with their new values,
\* stored the same relics as relics.json has them)
RECURSIVE ProfitLoop(_, _, _)
ProfitLoop(sorted_relics, stored, mp) ==
    IF sorted_relics = <<>> THEN [rows |-> <<>>, fault |-> "none"]
    ELSE LET prev == ProfitLoop(Front(sorted_relics), Front(stored), mp)
             relic == sorted_relics[Len(sorted_relics)]
             key == IntactName(relic.relicName)
         IN  IF prev.fault # "none" THEN prev
             ELSE IF key \notin DOMAIN mp
                  THEN [rows |-> prev.rows, fault |-> "KeyError"]
             ELSE IF mp[key] = Fin(0)
                  THEN [rows |-> prev.rows, fault |-> "ZeroDivisionError"]
             ELSE [rows |-> Append(prev.rows,
                               <<relic.relicName,
                                 FDivRound(relic.value, mp[key],
                                           FloatValue(stored[Len(stored)], mp))>>),
                   fault |-> "none"]

\* calculate_relic_values from the sort of the relics on: the profit loop
\* over the relics in the order p, and the sort of its rows
Rankings(mp, relics, p) ==
    LET sorted_relics == Permute(NewRelics(relics, mp), p)
        values == ValueKeys(relics, mp)
        profit == ProfitLoop(sorted_relics, Permute(relics, p), mp)
        ratios == [i \in 1..Len(profit.rows) |-> profit.rows[i][2]]
    IN  IF profit.fault # "none"
        THEN {[mp |-> mp, sorted |-> Data(sorted_relics), profit |-> Absent,
               fault |-> profit.fault, sorts |-> SortNote(values, p)]}
        ELSE {[mp |-> mp, sorted |-> Data(sorted_relics),
               profit |-> Data(Permute(profit.rows, q)), fault |-> "none",
               sorts |-> SortNote(values, p) \cup SortNote(ratios, q)] :
                  q \in SortedProfit(profit.rows)}

\* calculate_relic_values(live) from the two snapshots it has read to the
\* point where it opens relics.json: the two dicts, and the price loop of
\* the mode over them
MedianPlat(l, orders, statistics) ==
    LET order_dict == UpdateAll(orders)
        statistics_dict == UpdateAll(statistics)
    IN  IF l THEN LiveLoop(KeyOrder(orders), order_dict)
             ELSE StatisticsLoop(statistics_dict)

\* calculate_relic_values(live) on the three files it reads: the estimates,
\* the two files it writes (Absent when the fault came first), the fault,
\* and the orders its sorts left keys in that < does not order. There is
\* one outcome for every way the two sorts can come out.
CalculateRelicValues(l, orders, statistics, relics) ==
    LET prices == MedianPlat(l, orders, statistics)
    IN  IF prices.fault # "none"
        THEN {[mp |-> prices.mp, sorted |-> Absent, profit |-> Absent,
               fault |-> prices.fault, sorts |-> {}]}
        ELSE UNION {Rankings(prices.mp, relics, p) :
                       p \in SortedRelics(relics, prices.mp)}

-----------------------------------------------------------------------------
(* The catalog and the market data the runs are checked on *)

Reward(name, rarity, chance) ==
    [itemName |-> name, rarity |-> rarity, chance |-> chance]

\* a relic as get_relics writes it: value 0 and price 0
Relic(name, rewards) ==
    [relicName |-> name, rewards |-> rewards, value |-> Fin(0), price |-> 0]

Forma == "Forma Blueprint"
Paris == "Paris Prime String"
LithIntact == "Lith A1 Intact"
LithRadiant == "Lith A1 Radiant"
MesoIntact == "Meso B2 Intact"
NeoIntact == "Neo C3 Intact"

\* one relic in two states, the rarer reward more likely when Radiant
LithCatalog ==
    << Relic(LithIntact, <<Reward(Forma, "Common", 25), Reward(Paris, "Rare", 2)>>),
       Relic(LithRadiant, <<Reward(Forma, "Common", 20), Reward(Paris, "Rare", 10)>>) >>

\* two relics, the second with one reward only
TwoCatalog == Append(LithCatalog, Relic(MesoIntact, <<Reward(Paris, "Common", 50)>>))

\* three relics, the third with a reward listed at chance 0: when that
\* reward has no price (inf * 0) the value of the relic is nan, and < does
\* not order the three
ThreeCatalog ==
    << Relic(LithIntact, <<Reward(Forma, "Common", 25), Reward(Paris, "Rare", 2)>>),
       Relic(MesoIntact, <<Reward(Paris, "Common", 50)>>),
       Relic(NeoIntact, <<Reward(Forma, "Rare", 0), Reward(Paris, "Uncommon", 10)>>) >>

Stat(datetime, median) == [datetime |-> datetime, median |-> median]
Order(order_type, platinum) == [order_type |-> order_type, platinum |-> platinum]

\* 90 days windows: none; three days, not in date order, whose mean is not
\* a whole number of hundredths; nine days, newest first, the oldest cheap
EmptyWindow == <<>>
ShortWindow == <<Stat(3, 11), Stat(1, 10), Stat(2, 10)>>
LongWindow == <<Stat(9, 90), Stat(8, 80), Stat(7, 20), Stat(6, 20), Stat(5, 20),
                Stat(4, 20), Stat(3, 20), Stat(2, 20), Stat(1, 13)>>

\* order books: none; buy orders only; an odd and an even number of sells.
\* At the prices 15 and 20 some ratios are halfway between two hundredths:
\* (20 * 25 / 100 + 15 * 2 / 100) / 20 is 0.265, 15 * 50 / 100 / 20 is 0.375.
EmptyBook == <<>>
BuyBook == <<Order("buy", 5)>>
OddBook == <<Order("sell", 10), Order("buy", 12), Order("sell", 20), Order("sell", 15)>>
EvenBook == <<Order("sell", 20), Order("sell", 10), Order("buy", 15)>>

StatisticsPayloads == {EmptyWindow, ShortWindow, LongWindow}
OrdersPayloads == {EmptyBook, BuyBook, OddBook, EvenBook}

\* what the market answers a first run of the pipeline with
ServerPayloads(uri) ==
    IF uri = "statistics" THEN {ShortWindow} ELSE {OddBook}

\* a snapshot left by an earlier run
OldSnapshot(uri, relics) ==
    LET names == EntityList(relics, GetItems(relics))
    IN  [i \in 1..Len(names) |->
            Info(names[i], IF uri = "statistics" THEN ShortWindow ELSE OddBook)]

Statuses == {Ok, Throttled} \cup ErrorStatuses

\* the time an earlier run wrote relics.json at
LastRun == 1000

-----------------------------------------------------------------------------
(* main, up to the first fetch phase: the relic and item catalogs *)

\* 24 * 60 * 60
DaySeconds == 24 * 60 * 60

\* relics.get("timestamp") and ...: the key is there and its value not 0
HasTimestamp(file) == "timestamp" \in DOMAIN file /\ file.timestamp # 0

\* check_update() at time t: what it returns, or the exception it raises
CheckUpdate(file, t) ==
    IF file.state \in {"absent", "empty"}
    THEN [needs_update |-> TRUE, fault |-> "none"]
    ELSE IF file.state = "garbage"
    THEN [needs_update |-> FALSE, fault |-> "JSONDecodeError"]
    ELSE [needs_update |-> HasTimestamp(file) /\ file.timestamp + DaySeconds < t,
          fault |-> "none"]

\* a record of the drop table
Raw(tier, relicName, state, rewards) ==
    [tier |-> tier, relicName |-> relicName, state |-> state, rewards |-> rewards]

\* get_relics: relics[relic_name] = {...} for every record of the drop table;
\* a name met again keeps its place and takes the later record
RECURSIVE ParseRelics(_, _)
ParseRelics(relics, raw) ==
    IF raw = <<>> THEN relics
    ELSE LET relic == Head(raw)
             relic_name == Join(<<relic.tier, relic.relicName, relic.state>>)
             entry == Relic(relic_name, relic.rewards)
             at == {i \in 1..Len(relics) : relics[i].relicName = relic_name}
         IN  ParseRelics(
                 IF at = {} THEN Append(relics, entry)
                 ELSE [relics EXCEPT ![CHOOSE i \in at : TRUE] = entry],
                 Tail(raw))

\* get_relics(needs_update) at time t: relics.json afterwards
GetRelics(needs, file, raw, t) ==
    IF needs \/ MissingOrEmpty(file) THEN Stamped(ParseRelics(<<>>, raw), t)
    ELSE file

\* the drop table that get_relics parses into this catalog
FeedOf(relics) ==
    [i \in 1..Len(relics) |->
        LET words == Split(relics[i].relicName)
        IN  Raw(words[1], words[2], words[3], relics[i].rewards)]

\* main: needs_update = check_update()
MainCheckUpdate ==
    /\ main_pc = "check_update"
    /\ LET r == CheckUpdate(relics_json, now)
       IN  IF r.fault # "none"
           THEN /\ main_pc' = "crashed"
                /\ fault' = r.fault
                /\ UNCHANGED needs_update
           ELSE /\ main_pc' = "get_relics"
                /\ needs_update' = r.needs_update
                /\ UNCHANGED fault
    /\ UNCHANGED <<runVars, gathering, fetchVars, fileVars, calcVars>>

\* main: get_relics(needs_update)
MainGetRelics ==
    /\ main_pc = "get_relics"
    /\ relics_json' = GetRelics(needs_update, relics_json, feed, now)
    /\ main_pc' = "get_items"
    /\ UNCHANGED <<runVars, needs_update, gathering, fetchVars, items_json,
                   statistics_json, orders_json, sorted_relics_json,
                   profit_relics_json, calcVars, fault>>

\* main: get_items(needs_update). relics.json is parsed first; items.json is
\* rebuilt when missing, empty or an update is due, and parsed otherwise
MainGetItems ==
    /\ main_pc = "get_items"
    /\ IF relics_json.state # "data"
       THEN /\ main_pc' = "crashed"
            /\ fault' = IF relics_json.state = "absent" THEN "FileNotFoundError"
                                                        ELSE "JSONDecodeError"
            /\ UNCHANGED items_json
       ELSE IF needs_update \/ MissingOrEmpty(items_json)
       THEN /\ items_json' = Data(GetItems(relics_json.content))
            /\ main_pc' = "statistics"
            /\ UNCHANGED fault
       ELSE IF items_json.state = "garbage"
       THEN /\ main_pc' = "crashed"
            /\ fault' = "JSONDecodeError"
            /\ UNCHANGED items_json
       ELSE /\ main_pc' = "statistics"
            /\ UNCHANGED <<items_json, fault>>
    /\ UNCHANGED <<runVars, needs_update, gathering, fetchVars, relics_json,
                   statistics_json, orders_json, sorted_relics_json,
                   profit_relics_json, calcVars>>

-----------------------------------------------------------------------------
(* main, from the first fetch phase on *)

Range(s) == {s[i] : i \in 1..Len(s)}

FileOf(uri) == IF uri = "statistics" THEN statistics_json ELSE orders_json

\* main: statistics, then orders, then calculate_relic_values
After(uri) == IF uri = "statistics" THEN "orders" ELSE "calculate"

WriteSnapshot(uri, content) ==
    /\ statistics_json' = IF uri = "statistics" THEN Data(content) ELSE statistics_json
    /\ orders_json' = IF uri = "orders" THEN Data(content) ELSE orders_json
    /\ UNCHANGED <<relics_json, items_json, sorted_relics_json, profit_relics_json>>

\* the same, returning whenever the snapshot is there
GetAllInfoSkipPresent(uri) ==
    /\ main_pc = uri
    /\ ~gathering
    /\ ~MissingOrEmpty(FileOf(uri))
    /\ main_pc' = After(uri)
    /\ UNCHANGED <<runVars, needs_update, gathering, fetchVars, fileVars,
                   calcVars, fault>>

\* get_all_info: the snapshot is there and no update is due
GetAllInfoSkip(uri) ==
    /\ main_pc = uri
    /\ ~gathering
    /\ ~(needs_update \/ MissingOrEmpty(FileOf(uri)))
    /\ main_pc' = After(uri)
    /\ UNCHANGED <<runVars, needs_update, gathering, fetchVars, fileVars,
                   calcVars, fault>>

\* get_all_info: items.json, then relics.json, are read with json.loads,
\* and the first that is missing or does not parse ends the run before any
\* task is created. Otherwise one safe_get_info task per entity is handed
\* to gather; the server's final status for every entity is fixed here.
GetAllInfoStart(uri) ==
    /\ main_pc = uri
    /\ ~gathering
    /\ needs_update \/ MissingOrEmpty(FileOf(uri))
    /\ IF ReadFault(items_json) # "none"
       THEN /\ main_pc' = "crashed"
            /\ fault' = ReadFault(items_json)
            /\ UNCHANGED <<gathering, fetchVars>>
       ELSE IF ReadFault(relics_json) # "none"
       THEN /\ main_pc' = "crashed"
            /\ fault' = ReadFault(relics_json)
            /\ UNCHANGED <<gathering, fetchVars>>
       ELSE LET names == EntityList(relics_json.content, items_json.content)
            IN  /\ item_api_uri' = uri
                /\ tasks' = names
                /\ pc' = [e \in Range(names) |-> "waiting"]
                /\ sent' = [e \in Range(names) |-> 0]
                /\ throttles' = [e \in Range(names) |-> 0]
                /\ results' = [e \in Range(names) |-> NoData]
                /\ res' = <<>>
                /\ policy' \in [Range(names) -> Statuses]
                /\ gathering' = TRUE
                /\ UNCHANGED <<sem, main_pc, fault>>
    /\ UNCHANGED <<runVars, needs_update, fileVars, calcVars>>

\* safe_get_info: async with sem, then get_info sends the request
AcquireNoGate(e) ==
    /\ gathering
    /\ pc[e] = "waiting"
    /\ sem' = sem - 1
    /\ pc' = [pc EXCEPT ![e] = "inflight"]
    /\ sent' = [sent EXCEPT ![e] = @ + 1]
    /\ UNCHANGED <<runVars, needs_update, main_pc, gathering, item_api_uri, tasks,
                   throttles, results, res, policy, fileVars, calcVars, fault>>

Acquire(e) ==
    /\ gathering
    /\ pc[e] = "waiting"
    /\ sem > 0
    /\ sem' = sem - 1
    /\ pc' = [pc EXCEPT ![e] = "inflight"]
    /\ sent' = [sent EXCEPT ![e] = @ + 1]
    /\ UNCHANGED <<runVars, needs_update, main_pc, gathering, item_api_uri, tasks,
                   throttles, results, res, policy, fileVars, calcVars, fault>>

\* the same, giving the entity up with {} instead of retrying
Respond429GiveUp(e) ==
    /\ gathering
    /\ pc[e] = "inflight"
    /\ policy[e] = Throttled \/ throttles[e] < MaxBurst
    /\ pc' = [pc EXCEPT ![e] = "done"]
    /\ results' = [results EXCEPT ![e] = NoData]
    /\ res' = Append(res, e)
    /\ sem' = sem + 1
    /\ UNCHANGED <<runVars, needs_update, main_pc, gathering, item_api_uri, tasks,
                   sent, throttles, policy, fileVars, calcVars, fault>>

\* get_info: status 429, asyncio.sleep(1) with the permit kept
Respond429(e) ==
    /\ gathering
    /\ pc[e] = "inflight"
    /\ policy[e] = Throttled \/ throttles[e] < MaxBurst
    /\ pc' = [pc EXCEPT ![e] = "sleeping"]
    /\ throttles' = [throttles EXCEPT ![e] = Min(@ + 1, MaxBurst + 1)]
    /\ UNCHANGED <<runVars, sem, needs_update, main_pc, gathering, item_api_uri,
                   tasks, sent, results, res, policy, fileVars, calcVars, fault>>

\* get_info: the sleep is over, get_info calls itself and sends again
Retry(e) ==
    /\ gathering
    /\ pc[e] = "sleeping"
    /\ pc' = [pc EXCEPT ![e] = "inflight"]
    /\ sent' = [sent EXCEPT ![e] = Min(@ + 1, MaxBurst + 2)]
    /\ UNCHANGED <<runVars, sem, needs_update, main_pc, gathering, item_api_uri,
                   tasks, throttles, results, res, policy, fileVars, calcVars,
                   fault>>

\* the same, keeping the permit of a task that returns {}
ReturnLeak(e, r) ==
    /\ pc' = [pc EXCEPT ![e] = "done"]
    /\ results' = [results EXCEPT ![e] = r]
    /\ res' = Append(res, e)
    /\ sem' = IF r = NoData THEN sem ELSE sem + 1
    /\ UNCHANGED <<runVars, needs_update, main_pc, gathering, item_api_uri, tasks,
                   sent, throttles, policy, fileVars, calcVars, fault>>

\* safe_get_info returns r: the task is done and its permit released
Return(e, r) ==
    /\ pc' = [pc EXCEPT ![e] = "done"]
    /\ results' = [results EXCEPT ![e] = r]
    /\ res' = Append(res, e)
    /\ sem' = sem + 1
    /\ UNCHANGED <<runVars, needs_update, main_pc, gathering, item_api_uri, tasks,
                   sent, throttles, policy, fileVars, calcVars, fault>>

\* get_info: status 200, the payload under the entity's name
RespondOk(e) ==
    /\ gathering
    /\ pc[e] = "inflight"
    /\ policy[e] = Ok
    /\ \E payload \in ServerPayloads(main_pc) : Return(e, Info(e, payload))

\* get_info: any other status, "Error on ..." and {}
RespondErrorRetry(e) ==
    /\ gathering
    /\ pc[e] = "inflight"
    /\ policy[e] \in ErrorStatuses
    /\ IF sent[e] <= throttles[e] + 1
       THEN /\ pc' = [pc EXCEPT ![e] = "sleeping"]
            /\ UNCHANGED <<runVars, sem, needs_update, main_pc, gathering,
                           item_api_uri, tasks, sent, throttles, results, res,
                           policy, fileVars, calcVars, fault>>
       ELSE Return(e, NoData)

RespondError(e) ==
    /\ gathering
    /\ pc[e] = "inflight"
    /\ policy[e] \in ErrorStatuses
    /\ Return(e, NoData)

\* gather returns the results in the order the tasks completed in
GatherUnsorted(names, done, r) == [i \in 1..Len(done) |-> r[done[i]]]

\* tqdm gather: the results are collected as the tasks complete, each with
\* the index of its task, and returned sorted by that index
Gather(names, done, r) == [i \in 1..Len(names) |-> r[names[i]]]

\* gather returns as soon as one task is done
GatherReadyAny == \E e \in DOMAIN pc : pc[e] = "done"

\* gather returns the tasks' results in creation order once all are done
GatherReady == \A e \in DOMAIN pc : pc[e] = "done"

\* get_all_info: the results are written to <uri>.json
GetAllInfoWrite(uri) ==
    /\ main_pc = uri
    /\ gathering
    /\ GatherReady
    /\ WriteSnapshot(uri, Gather(tasks, res, results))
    /\ gathering' = FALSE
    /\ main_pc' = After(uri)
    /\ UNCHANGED <<runVars, needs_update, fetchVars, calcVars, fault>>

\* calculate_relic_values on the files as they are: its outcomes. It reads
\* orders.json, then statistics.json, runs the price loop, and only then
\* reads relics.json; the first of these steps that raises ends it, with
\* median_plat as the price loop left it when relics.json is the one that
\* does not load
Valuations(l) ==
    LET Raised(mp, exception) ==
            {[mp |-> mp, sorted |-> Absent, profit |-> Absent,
              fault |-> exception, sorts |-> {}]}
    IN  IF ReadFault(orders_json) # "none"
        THEN Raised(NoData, ReadFault(orders_json))
        ELSE IF ReadFault(statistics_json) # "none"
        THEN Raised(NoData, ReadFault(statistics_json))
        ELSE LET prices == MedianPlat(l, orders_json.content,
                                      statistics_json.content)
             IN  IF prices.fault # "none"
                 THEN Raised(prices.mp, prices.fault)
                 ELSE IF ReadFault(relics_json) # "none"
                 THEN Raised(prices.mp, ReadFault(relics_json))
                 ELSE CalculateRelicValues(l, orders_json.content,
                                           statistics_json.content,
                                           relics_json.content)

\* the same, writing the relics with their new values back to relics.json
CalculateWriteBack(l) ==
    /\ main_pc = "calculate"
    /\ \E r \in Valuations(l) :
          /\ IsOneSort(nan_orders \cup r.sorts)
          /\ nan_orders' = nan_orders \cup r.sorts
          /\ median_plat' = r.mp
          /\ fault' = r.fault
          /\ main_pc' = IF r.fault = "none" THEN "menu" ELSE "crashed"
          /\ sorted_relics_json' =
                 IF r.sorted.state = "data" THEN r.sorted ELSE sorted_relics_json
          /\ profit_relics_json' =
                 IF r.profit.state = "data" THEN r.profit ELSE profit_relics_json
          /\ relics_json' =
                 IF r.sorted.state = "data"
                 THEN [relics_json EXCEPT !.content = NewRelics(@, r.mp)]
                 ELSE relics_json
    /\ live' = l
    /\ UNCHANGED <<pool_size, now, feed, needs_update, gathering, fetchVars,
                   items_json, statistics_json, orders_json>>

\* calculate_relic_values(l)
Calculate(l) ==
    /\ main_pc = "calculate"
    /\ \E r \in Valuations(l) :
          /\ IsOneSort(nan_orders \cup r.sorts)
          /\ nan_orders' = nan_orders \cup r.sorts
          /\ median_plat' = r.mp
          /\ fault' = r.fault
          /\ main_pc' = IF r.fault = "none" THEN "menu" ELSE "crashed"
          /\ sorted_relics_json' =
                 IF r.sorted.state = "data" THEN r.sorted ELSE sorted_relics_json
          /\ profit_relics_json' =
                 IF r.profit.state = "data" THEN r.profit ELSE profit_relics_json
    /\ live' = l
    /\ UNCHANGED <<pool_size, now, feed, needs_update, gathering, fetchVars,
                   relics_json, items_json, statistics_json, orders_json>>

\* open_menu, left with q
OpenMenu ==
    /\ main_pc = "menu"
    /\ main_pc' = "exit"
    /\ UNCHANGED <<runVars, needs_update, gathering, fetchVars, fileVars,
                   calcVars, fault>>

Uris == {"statistics", "orders"}
Entities == Range(EntityList(LithCatalog, GetItems(LithCatalog)))

\* main has checked the relics and rebuilt the two catalogs; the market
\* snapshots are missing, empty or left by an earlier run
Init ==
    /\ pool_size \in 1..MaxPool
    /\ nan_orders = {}
    /\ now = LastRun + 1
    /\ feed = FeedOf(LithCatalog)
    /\ sem = pool_size
    /\ needs_update \in BOOLEAN
    /\ main_pc = "statistics"
    /\ gathering = FALSE
    /\ item_api_uri = "none"
    /\ tasks = <<>>
    /\ pc = <<>>
    /\ sent = <<>>
    /\ throttles = <<>>
    /\ results = <<>>
    /\ res = <<>>
    /\ policy = <<>>
    /\ relics_json = Stamped(LithCatalog, IF needs_update THEN now ELSE LastRun)
    /\ items_json = Data(GetItems(LithCatalog))
    /\ statistics_json \in {Absent, EmptyFile, Data(OldSnapshot("statistics", LithCatalog))}
    /\ orders_json \in {Absent, EmptyFile, Data(OldSnapshot("orders", LithCatalog))}
    /\ sorted_relics_json = Absent
    /\ profit_relics_json = Absent
    /\ median_plat = NoData
    /\ live = FALSE
    /\ fault = "none"

Fetch(e) ==
    \/ Acquire(e)
    \/ Respond429(e)
    \/ Retry(e)
    \/ RespondOk(e)
    \/ RespondError(e)

Next ==
    \/ \E uri \in Uris : GetAllInfoSkip(uri)
    \/ \E uri \in Uris : GetAllInfoStart(uri)
    \/ \E e \in Entities : Fetch(e)
    \/ \E uri \in Uris : GetAllInfoWrite(uri)
    \/ Calculate(FALSE)
    \/ OpenMenu

Spec == Init /\ [][Next]_vars

\* a run with no update due that finds no statistics yet, and the orders of
\* an earlier run or none
InitFair ==
    /\ Init
    /\ ~needs_update
    /\ statistics_json = Absent
    /\ orders_json # EmptyFile

\* the steps main takes in get_all_info
GetAllInfo ==
    \/ \E uri \in Uris : GetAllInfoSkip(uri)
    \/ \E uri \in Uris : GetAllInfoStart(uri)
    \/ \E uri \in Uris : GetAllInfoWrite(uri)

\* The event loop runs every coroutine that can run: a task that can take a
\* step takes it, and so does main while it is in get_all_info.
FairSpec ==
    /\ InitFair
    /\ [][Next]_vars
    /\ WF_vars(GetAllInfo)
    /\ \A e \in Entities : WF_vars(Fetch(e))

-----------------------------------------------------------------------------
(* calculate_relic_values alone, in both modes, on the snapshots an earlier
   fetch can have left: per entity no data or any of the payloads *)

Options(name, payloads) == {NoData} \cup {Info(name, p) : p \in payloads}

RECURSIVE SnapshotsOf(_, _)
SnapshotsOf(names, payloads) ==
    IF names = <<>> THEN {<<>>}
    ELSE {Append(s, element) : s \in SnapshotsOf(Front(names), payloads),
                               element \in Options(names[Len(names)], payloads)}

Snapshots(relics, payloads) ==
    SnapshotsOf(EntityList(relics, GetItems(relics)), payloads)

Catalogs == {LithCatalog, TwoCatalog, ThreeCatalog}

InitVal ==
    /\ pool_size = MaxPool
    /\ nan_orders = {}
    /\ now = LastRun + 1
    /\ sem = pool_size
    /\ needs_update = FALSE
    /\ main_pc = "calculate"
    /\ gathering = FALSE
    /\ item_api_uri = "none"
    /\ tasks = <<>>
    /\ pc = <<>>
    /\ sent = <<>>
    /\ throttles = <<>>
    /\ results = <<>>
    /\ res = <<>>
    /\ policy = <<>>
    /\ \E relics \in Catalogs :
          /\ feed = FeedOf(relics)
          /\ relics_json = Stamped(relics, LastRun)
          /\ items_json = Data(GetItems(relics))
          /\ \/ /\ statistics_json \in
                       {Data(s) : s \in Snapshots(relics, StatisticsPayloads)}
                /\ orders_json = Data(OldSnapshot("orders", relics))
             \/ /\ statistics_json = Data(OldSnapshot("statistics", relics))
                /\ orders_json \in {Data(s) : s \in Snapshots(relics, OrdersPayloads)}
    /\ sorted_relics_json = Absent
    /\ profit_relics_json = Absent
    /\ median_plat = NoData
    /\ live = FALSE
    /\ fault = "none"

NextVal ==
    \/ \E l \in BOOLEAN : Calculate(l)
    \/ OpenMenu

ValSpec == InitVal /\ [][NextVal]_vars

-----------------------------------------------------------------------------
(* main up to the first fetch phase, on the relics.json and items.json an
   earlier run, or anything else, can have left *)

\* a relic whose drop table names one item twice
TwinCatalog ==
    << Relic(LithIntact, <<Reward(Forma, "Common", 25), Reward(Forma, "Uncommon", 11),
                           Reward(Paris, "Rare", 2)>>) >>

DropTables == {LithCatalog, TwoCatalog, Reverse(LithCatalog), Reverse(TwoCatalog),
               TwinCatalog}

\* a drop table that names the relic Lith A1 Intact twice
DoubledFeed ==
    Append(FeedOf(LithCatalog),
           Raw("Lith", "A1", "Intact", <<Reward(Paris, "Uncommon", 11)>>))

Feeds == {FeedOf(c) : c \in {LithCatalog, Reverse(TwoCatalog), TwinCatalog}}
             \cup {DoubledFeed}

\* the clock when main starts: relics.json written at LastRun is younger
\* than 24 hours, exactly 24 hours old, older
StartTimes == {LastRun + 1, LastRun + DaySeconds, LastRun + DaySeconds + 1}

InitCatalog ==
    /\ pool_size = MaxPool
    /\ nan_orders = {}
    /\ now \in StartTimes
    /\ feed \in Feeds
    /\ sem = pool_size
    /\ needs_update = FALSE
    /\ main_pc = "check_update"
    /\ gathering = FALSE
    /\ item_api_uri = "none"
    /\ tasks = <<>>
    /\ pc = <<>>
    /\ sent = <<>>
    /\ throttles = <<>>
    /\ results = <<>>
    /\ res = <<>>
    /\ policy = <<>>
    /\ relics_json \in {Absent, EmptyFile, Garbage}
                        \cup {Stamped(c, LastRun) : c \in DropTables}
                        \cup {Data(c) : c \in DropTables}
    /\ items_json \in {Absent, EmptyFile, Garbage}
                       \cup {Data(GetItems(c)) : c \in DropTables}
    /\ statistics_json = Absent
    /\ orders_json = Absent
    /\ sorted_relics_json = Absent
    /\ profit_relics_json = Absent
    /\ median_plat = NoData
    /\ live = FALSE
    /\ fault = "none"

NextCatalog ==
    \/ MainCheckUpdate
    \/ MainGetRelics
    \/ MainGetItems

CatalogSpec == InitCatalog /\ [][NextCatalog]_vars

-----------------------------------------------------------------------------
(* a whole run of main on the files an earlier run, or anything else, can
   have left *)

InitCycle ==
    /\ pool_size = MaxPool
    /\ nan_orders = {}
    /\ now \in {LastRun + 1, LastRun + DaySeconds + 1}
    /\ feed = FeedOf(LithCatalog)
    /\ sem = pool_size
    /\ needs_update = FALSE
    /\ main_pc = "check_update"
    /\ gathering = FALSE
    /\ item_api_uri = "none"
    /\ tasks = <<>>
    /\ pc = <<>>
    /\ sent = <<>>
    /\ throttles = <<>>
    /\ results = <<>>
    /\ res = <<>>
    /\ policy = <<>>
    /\ relics_json \in {Absent, Garbage, Stamped(Reverse(LithCatalog), LastRun)}
    /\ items_json \in {EmptyFile, Garbage, Data(GetItems(Reverse(LithCatalog)))}
    /\ statistics_json \in
           {Absent, Garbage, Data(OldSnapshot("statistics", Reverse(LithCatalog)))}
    /\ orders_json \in
           {EmptyFile, Garbage, Data(OldSnapshot("orders", Reverse(LithCatalog)))}
    /\ sorted_relics_json = Absent
    /\ profit_relics_json = Absent
    /\ median_plat = NoData
    /\ live = FALSE
    /\ fault = "none"

NextCycle ==
    \/ MainCheckUpdate
    \/ MainGetRelics
    \/ MainGetItems
    \/ Next

CycleSpec == InitCycle /\ [][NextCycle]_vars

-----------------------------------------------------------------------------
(* main run again and again within 24 hours on the files of ValSpec *)

\* the program is started again at time t
MainAgain(t) ==
    /\ main_pc \in {"exit", "crashed"}
    /\ t > now
    /\ now' = t
    /\ main_pc' = "check_update"
    /\ sem' = pool_size
    /\ needs_update' = FALSE
    /\ gathering' = FALSE
    /\ item_api_uri' = "none"
    /\ tasks' = <<>>
    /\ pc' = <<>>
    /\ sent' = <<>>
    /\ throttles' = <<>>
    /\ results' = <<>>
    /\ res' = <<>>
    /\ policy' = <<>>
    /\ fault' = "none"
    /\ UNCHANGED <<pool_size, nan_orders, feed, fileVars, calcVars>>

RestartTimes == {LastRun + 2, LastRun + 3}

NextRerun ==
    \/ MainCheckUpdate
    \/ MainGetRelics
    \/ MainGetItems
    \/ \E uri \in Uris : GetAllInfoSkip(uri)
    \/ \E l \in BOOLEAN : Calculate(l)
    \/ OpenMenu
    \/ \E t \in RestartTimes : MainAgain(t)

RerunSpec == InitVal /\ [][NextRerun]_vars

-----------------------------------------------------------------------------
(* Claims about the fetch phases *)

InFlight == {e \in DOMAIN pc : pc[e] = "inflight"}
Admitted == {e \in DOMAIN pc : pc[e] \in {"inflight", "sleeping"}}
Waiting == {e \in DOMAIN pc : pc[e] = "waiting"}

\* main is past the gather of the tasks in `tasks`
Gathered == tasks # <<>> /\ ~gathering

ValuationRan == main_pc \in {"menu", "exit", "crashed"}

\* C1: with a semaphore of size N, never more than N requests are in flight
\* at once (nor more than N tasks admitted, a task backing off after a 429
\* included).
C1_InFlightBounded ==
    /\ Cardinality(InFlight) <= pool_size
    /\ Cardinality(Admitted) <= pool_size

\* C1 witness: the pool is full of requests in flight, one of them a retry
\* after a 429, while another task waits for a slot.
C1_Witness ==
    /\ Cardinality(InFlight) = pool_size
    /\ Waiting # {}
    /\ \E e \in InFlight : throttles[e] > 0

\* C2: while an entity is throttled for ever, every entity the server answers
\* with another status is still admitted and resolves.
C2_ThrottleDoesNotBlockOthers ==
    \A e \in Entities :
        (gathering /\ e \in DOMAIN pc /\ policy[e] # Throttled /\ pc[e] # "done")
            ~> (e \in DOMAIN pc /\ pc[e] = "done")

\* C3: a status that is neither 200 nor 429 gives {} for that entity after
\* exactly one more request than it had 429 answers, and the fetch goes on:
\* the snapshot written holds one result per task, {} for the entities that
\* failed and the payload of every entity answered with 200.
C3_ErrorIsNoData ==
    /\ \A e \in DOMAIN pc :
          (pc[e] = "done" /\ policy[e] \in ErrorStatuses) =>
              /\ results[e] = NoData
              /\ sent[e] = throttles[e] + 1
    /\ main_pc \in Uris => fault = "none"
    /\ Gathered =>
          LET file == FileOf(item_api_uri)
          IN  /\ file.state = "data"
              /\ Len(file.content) = Len(tasks)
              /\ \A i \in 1..Len(tasks) :
                    /\ sent[tasks[i]] >= 1
                    /\ policy[tasks[i]] \in ErrorStatuses => file.content[i] = NoData
                    /\ policy[tasks[i]] = Ok =>
                          \E payload \in ServerPayloads(item_api_uri) :
                              file.content[i] = Info(tasks[i], payload)

\* C3 witness: a snapshot is written in which one entity failed, after a 429,
\* and another has its payload.
C3_Witness ==
    /\ Gathered
    /\ \E i, j \in 1..Len(tasks) :
          /\ policy[tasks[i]] \in ErrorStatuses
          /\ throttles[tasks[i]] > 0
          /\ FileOf(item_api_uri).content[i] = NoData
          /\ policy[tasks[j]] = Ok
          /\ FileOf(item_api_uri).content[j] # NoData

\* C4: whenever main is not suspended in a gather, and so when it writes the
\* snapshot and in calculate_relic_values, every task is done; the snapshot
\* is the tasks' results.
C4_Barrier ==
    /\ ~gathering => \A e \in DOMAIN pc : pc[e] = "done"
    /\ (ValuationRan \/ main_pc = "calculate") => ~gathering
    /\ Gathered =>
          FileOf(item_api_uri) = Data([i \in 1..Len(tasks) |-> results[tasks[i]]])

\* C4 witness: the valuation has run after a phase in which tasks had to wait
\* for a slot and a request was retried.
C4_Witness ==
    /\ ValuationRan
    /\ Len(tasks) > pool_size
    /\ \E e \in DOMAIN pc : throttles[e] > 0

\* C5: whatever entities have no data, calculate_relic_values completes and
\* writes both rankings.
C5_NoDataNeverFaults ==
    ValuationRan =>
        /\ fault = "none"
        /\ sorted_relics_json.state = "data"
        /\ profit_relics_json.state = "data"

-----------------------------------------------------------------------------
(* Claims about calculate_relic_values *)

Abs(x) == IF x < 0 THEN -x ELSE x

\* the entities a snapshot has data for, and the payload of one of them
WithData(file) ==
    UNION {Keys(file.content[i]) : i \in 1..Len(file.content)}
PayloadOf(file, name) ==
    LET i == CHOOSE i \in 1..Len(file.content) : name \in Keys(file.content[i])
        j == CHOOSE j \in 1..Len(file.content[i]) : file.content[i][j][1] = name
    IN  file.content[i][j][2]

SellIdx(orders) == {i \in 1..Len(orders) : orders[i].order_type = "sell"}

\* m is the element at index floor(count / 2) of the sorted sell prices: at
\* most floor(count / 2) sell prices are below it, more are not above it
IsUpperMedian(m, orders) ==
    LET S == SellIdx(orders)
        half == Cardinality(S) \div 2
    IN  /\ \E i \in S : orders[i].platinum = m
        /\ Cardinality({i \in S : orders[i].platinum < m}) <= half
        /\ Cardinality({i \in S : orders[i].platinum <= m}) > half

\* S holds the oldest 7 entries of the window (all of them when fewer)
IsOldestWeek(S, window) ==
    /\ Cardinality(S) = Min(WeekLen, Len(window))
    /\ \A i \in S : \A j \in (1..Len(window)) \ S :
          window[i].datetime <= window[j].datetime

MedianSum(S, window) ==
    SumSeq([i \in 1..Len(window) |-> IF i \in S THEN window[i].median ELSE 0])

\* C6: a relic's value is the sum over its rewards of price * chance / 100,
\* a reward whose item has no estimate, or the no-price sentinel, counting 0.
C6_MissingPriceIsZero ==
    sorted_relics_json.state = "data" =>
        \A i \in 1..Len(sorted_relics_json.content) :
            LET relic == sorted_relics_json.content[i]
                part(reward) ==
                    IF /\ reward.itemName \in DOMAIN median_plat
                       /\ median_plat[reward.itemName].k = "fin"
                    THEN median_plat[reward.itemName].n * reward.chance
                    ELSE 0
            IN  relic.value =
                    Fin(SumSeq([j \in 1..Len(relic.rewards) |-> part(relic.rewards[j])]))

\* C7: a relic whose Intact variant has the no-price sentinel has profit
\* ratio 0 and stands below every relic with a finite positive ratio.
C7_SentinelDivisorSinks ==
    profit_relics_json.state = "data" =>
        LET rows == profit_relics_json.content
        IN  \A i \in 1..Len(rows) :
                (/\ IntactName(rows[i][1]) \in DOMAIN median_plat
                 /\ median_plat[IntactName(rows[i][1])] = Inf) =>
                    /\ rows[i][2] = Fin(0)
                    /\ \A j \in 1..Len(rows) :
                          (rows[j][2].k = "fin" /\ rows[j][2].n > 0) => j < i

\* C8: in live mode the estimate of an item with sell orders is the element
\* at index floor(count / 2) of its sorted sell prices, buy orders ignored;
\* unless an item without sell orders ended the loop, every item of the
\* snapshot has an estimate.
C8_LiveUpperMedian ==
    (live /\ ValuationRan) =>
        /\ \A item \in DOMAIN median_plat :
              SellIdx(PayloadOf(orders_json, item)) # {} =>
                  /\ median_plat[item].k = "fin"
                  /\ \E i \in SellIdx(PayloadOf(orders_json, item)) :
                        LET m == PayloadOf(orders_json, item)[i].platinum
                        IN  /\ median_plat[item].n = 100 * m
                            /\ IsUpperMedian(m, PayloadOf(orders_json, item))
        /\ fault # "IndexError" => DOMAIN median_plat = WithData(orders_json)

\* C8 witness: an item with two sell orders and a buy order between them is
\* priced at the dearer sell order.
C8_Witness ==
    /\ live
    /\ ValuationRan
    /\ \E item \in DOMAIN median_plat :
          LET orders == PayloadOf(orders_json, item)
          IN  /\ Cardinality(SellIdx(orders)) = 2
              /\ SellIdx(orders) # 1..Len(orders)
              /\ \E i, j \in SellIdx(orders) :
                    /\ orders[i].platinum < orders[j].platinum
                    /\ median_plat[item] = Fin(100 * orders[j].platinum)

\* C9: in live mode an item without sell offers does not end the run: with
\* data for every entity both rankings are written.
C9_NoSellOffersIsNoPrice ==
    (/\ live
     /\ ValuationRan
     /\ WithData(orders_json) = Range(EntityList(relics_json.content, items_json.content))
     /\ \E item \in WithData(orders_json) : SellIdx(PayloadOf(orders_json, item)) = {}) =>
        /\ fault = "none"
        /\ sorted_relics_json.state = "data"
        /\ profit_relics_json.state = "data"

\* C10 as stated: in statistics mode the estimate is the average of the
\* medians of the oldest 7 entries of the window, +infinity when it is empty.
C10_MeanOfOldestWeek ==
    (~live /\ ValuationRan) =>
        /\ DOMAIN median_plat = WithData(statistics_json)
        /\ \A item \in DOMAIN median_plat :
              LET window == PayloadOf(statistics_json, item)
              IN  IF window = <<>> THEN median_plat[item] = Inf
                  ELSE /\ median_plat[item].k = "fin"
                       /\ \E S \in SUBSET (1..Len(window)) :
                             /\ IsOldestWeek(S, window)
                             /\ Cardinality(S) * median_plat[item].n
                                    = 100 * MedianSum(S, window)

\* C10 as amended: the estimate is that average rounded to 2 decimals (the
\* hundredth nearest to it).
C10_RoundedMeanOfOldestWeek ==
    (~live /\ ValuationRan) =>
        /\ DOMAIN median_plat = WithData(statistics_json)
        /\ \A item \in DOMAIN median_plat :
              LET window == PayloadOf(statistics_json, item)
              IN  IF window = <<>> THEN median_plat[item] = Inf
                  ELSE /\ median_plat[item].k = "fin"
                       /\ \E S \in SUBSET (1..Len(window)) :
                             /\ IsOldestWeek(S, window)
                             /\ 2 * Abs(Cardinality(S) * median_plat[item].n
                                        - 100 * MedianSum(S, window))
                                    <= Cardinality(S)

\* C10 witness: one item has more than 7 entries, another an empty window
\* and the sentinel, a third a mean that is no whole number of hundredths.
C10_Witness ==
    /\ ~live
    /\ ValuationRan
    /\ \E a, b, c \in DOMAIN median_plat :
          /\ Len(PayloadOf(statistics_json, a)) > WeekLen
          /\ median_plat[a].k = "fin"
          /\ PayloadOf(statistics_json, b) = <<>>
          /\ median_plat[b] = Inf
          /\ LET window == PayloadOf(statistics_json, c)
             IN  /\ window # <<>>
                 /\ Len(window) <= WeekLen
                 /\ (100 * MedianSum(1..Len(window), window)) % Len(window) # 0

-----------------------------------------------------------------------------
(* Claims about the catalogs and the cache *)

\* the relic snapshot carries a timestamp more than 24 hours before t
OlderThanADay(file, t) ==
    /\ file.state = "data"
    /\ "timestamp" \in DOMAIN file
    /\ file.timestamp + DaySeconds < t

\* C11: check_update returns true exactly when relics.json is absent, is
\* empty or carries a timestamp older than 24 hours, false otherwise, and
\* raises nothing whatever the file holds (a run that ended in the catalog
\* stages ended after check_update, with a relic catalog that parses).
C11_StalenessCheck ==
    /\ main_pc = "get_relics" =>
          needs_update = (MissingOrEmpty(relics_json) \/ OlderThanADay(relics_json, now))
    /\ main_pc = "crashed" => relics_json.state = "data"

\* C12: a snapshot that is absent, empty or does not parse never ends the
\* run: no stage raises on reading a file, and valuation is reached with
\* all four snapshots regenerated or kept as parsed data.
C12_CacheMissNeverFatal ==
    /\ fault \notin {"JSONDecodeError", "FileNotFoundError"}
    /\ main_pc = "calculate" =>
          \A file \in {relics_json, items_json, statistics_json, orders_json} :
              file.state = "data"

\* get_relics wrote relics.json in this run
Refreshed == relics_json.state = "data" /\ HasTimestamp(relics_json)
                 /\ relics_json.timestamp = now

\* C13: in every run, get_items and each fetch phase regenerate their
\* snapshot if and only if it is absent or empty or the relic catalog was
\* refreshed in this run; otherwise the stage creates no task, sends no
\* request and leaves its file as it was. A phase that started ends by
\* writing its file.
C13_RegeneratedIff ==
    [][ /\ (main_pc = "get_items" /\ main_pc' = "statistics") =>
              IF MissingOrEmpty(items_json) \/ Refreshed
              THEN items_json' = Data(GetItems(relics_json.content))
              ELSE items_json' = items_json
        /\ \A uri \in Uris :
              /\ (main_pc = uri /\ ~gathering) =>
                    IF MissingOrEmpty(FileOf(uri)) \/ Refreshed
                    THEN /\ gathering'
                         /\ tasks' # <<>>
                         /\ main_pc' = uri
                    ELSE /\ ~gathering'
                         /\ main_pc' = After(uri)
                         /\ FileOf(uri)' = FileOf(uri)
                         /\ <<tasks, pc, sent>>' = <<tasks, pc, sent>>
              /\ (main_pc = uri /\ gathering /\ ~gathering') =>
                    /\ FileOf(uri)'.state = "data"
                    /\ Len(FileOf(uri)'.content) = Len(tasks)
                    /\ \A e \in DOMAIN sent : sent[e] >= 1
      ]_vars

\* C13 witness: in a run within 24 hours of the last refresh the statistics
\* of the earlier run were kept, with no request made for them, while the
\* empty items and orders files were rebuilt.
C13_Witness ==
    /\ main_pc = "calculate"
    /\ ~Refreshed
    /\ statistics_json = Data(OldSnapshot("statistics", relics_json.content))
    /\ item_api_uri = "orders"
    /\ orders_json.state = "data"
    /\ \A e \in DOMAIN sent : sent[e] >= 1
    /\ items_json = Data(GetItems(relics_json.content))

\* the places <<relic, reward>> of a catalog where an item is named, and
\* the order the catalog is iterated in
Places(relics, name) ==
    {p \in UNION {{<<i, j>> : j \in 1..Len(relics[i].rewards)} : i \in 1..Len(relics)} :
        relics[p[1]].rewards[p[2]].itemName = name}
Before(p, q) == p[1] < q[1] \/ (p[1] = q[1] /\ p[2] < q[2])
FirstPlace(relics, name) ==
    CHOOSE p \in Places(relics, name) :
        \A q \in Places(relics, name) : q = p \/ Before(p, q)
RewardNames(relics) ==
    UNION {{relics[i].rewards[j].itemName : j \in 1..Len(relics[i].rewards)} :
              i \in 1..Len(relics)}

\* items holds every reward name of the catalog exactly once, with the
\* rarity and chance of the first place it is named at, in first-seen order
IsFirstSeenCatalog(items, relics) ==
    /\ {items[k].itemName : k \in 1..Len(items)} = RewardNames(relics)
    /\ Len(items) = Cardinality(RewardNames(relics))
    /\ \A k \in 1..Len(items) :
          LET p == FirstPlace(relics, items[k].itemName)
              reward == relics[p[1]].rewards[p[2]]
          IN  /\ items[k].rarity = reward.rarity
              /\ items[k].chance = reward.chance
    /\ \A k, l \in 1..Len(items) :
          k < l => Before(FirstPlace(relics, items[k].itemName),
                          FirstPlace(relics, items[l].itemName))

\* C15: whenever get_items rebuilds items.json, every distinct reward name
\* of the relic catalog is in it exactly once with the rarity and chance of
\* its first occurrence in iteration order; rebuilding a catalog that was
\* built from the same relics leaves it identical.
C15_FirstSeenWins ==
    [][ (/\ main_pc = "get_items"
         /\ main_pc' = "statistics"
         /\ needs_update \/ MissingOrEmpty(items_json)) =>
            /\ items_json'.state = "data"
            /\ IsFirstSeenCatalog(items_json'.content, relics_json.content)
            /\ (/\ items_json.state = "data"
                /\ IsFirstSeenCatalog(items_json.content, relics_json.content)) =>
                   items_json' = items_json
      ]_vars

\* C15 witness: the catalog was rebuilt in this run from relics that name an
\* item twice with different rarity and chance, and holds the first of them.
C15_Witness ==
    /\ main_pc = "statistics"
    /\ needs_update
    /\ items_json.state = "data"
    /\ \E k \in 1..Len(items_json.content) :
          LET name == items_json.content[k].itemName
              relics == relics_json.content
              p == FirstPlace(relics, name)
          IN  /\ \E q \in Places(relics, name) :
                    /\ Before(p, q)
                    /\ relics[q[1]].rewards[q[2]].chance
                           # relics[p[1]].rewards[p[2]].chance
                    /\ relics[q[1]].rewards[q[2]].rarity
                           # relics[p[1]].rewards[p[2]].rarity
              /\ items_json.content[k].chance = relics[p[1]].rewards[p[2]].chance
              /\ items_json.content[k].rarity = relics[p[1]].rewards[p[2]].rarity

-----------------------------------------------------------------------------
(* Claims about what a fetch phase requests and writes *)

\* a relic in the Intact state: the last word of its name is Intact
InIntactState(name) ==
    Len(name) > 6 /\ SubSeq(name, Len(name) - 6, Len(name)) = " Intact"

\* the entities of the catalogs: every item, every relic in the Intact state
IntactRelics == {relics_json.content[i].relicName : i \in
                    {j \in 1..Len(relics_json.content) :
                        InIntactState(relics_json.content[j].relicName)}}
OtherRelics == {relics_json.content[i].relicName : i \in 1..Len(relics_json.content)}
                   \ IntactRelics
AllItems == {items_json.content[i].itemName : i \in 1..Len(items_json.content)}

\* C14: a fetch phase creates one task for every item and every Intact
\* relic and for nothing else, and sends at least one request for each; the
\* snapshot it writes has exactly one element per such entity, the entity's
\* name mapped to its payload or the no-data element, and none for a relic
\* in another state.
C14_OneElementPerEntity ==
    /\ gathering =>
          LET wanted == IntactRelics \cup AllItems
          IN  /\ Range(tasks) = wanted
              /\ Len(tasks) = Cardinality(wanted)
              /\ DOMAIN sent = wanted
    /\ Gathered =>
          LET file == FileOf(item_api_uri).content
              wanted == IntactRelics \cup AllItems
              other == OtherRelics
              elems(e) == {i \in 1..Len(file) : tasks[i] = e}
          IN  /\ Len(file) = Cardinality(wanted)
              /\ \A e \in wanted :
                    /\ sent[e] >= 1
                    /\ Cardinality(elems(e)) = 1
                    /\ \A i \in elems(e) :
                          \/ file[i] = NoData
                          \/ /\ Len(file[i]) = 1
                             /\ file[i][1][1] = e
                             /\ file[i][1][2] \in ServerPayloads(item_api_uri)
                    /\ Cardinality({i \in 1..Len(file) : e \in Keys(file[i])}) <= 1
              /\ \A i \in 1..Len(file) : Keys(file[i]) \cap other = {}
              /\ Range(tasks) \cap other = {}

\* C14 witness: a snapshot is written for a catalog with a relic that is not
\* Intact; it holds the payload of the Intact relic and of one item and the
\* no-data element for the other item.
C14_Witness ==
    /\ Gathered
    /\ OtherRelics # {}
    /\ LET file == FileOf(item_api_uri).content
       IN  /\ \E i \in 1..Len(file) : file[i] = NoData /\ tasks[i] \in AllItems
           /\ \E i \in 1..Len(file) : Keys(file[i]) \cap IntactRelics # {}
           /\ \E i \in 1..Len(file) : Keys(file[i]) \cap AllItems # {}

\* the snapshot of a phase as the catalog and the server's answers fix it:
\* the payload of an entity answered with 200, {} for another status, in
\* the order of the catalog
Answered(uri, names, status) ==
    [i \in 1..Len(names) |->
        IF status[names[i]] = Ok
        THEN Info(names[i], CHOOSE payload \in ServerPayloads(uri) : TRUE)
        ELSE NoData]

\* C17: the snapshot a phase writes is fixed by the catalog and the final
\* answer of the server for every entity, and so are the outcome of the
\* valuation of the statistics fetched and both rankings, whatever the order
\* the requests were admitted and completed in and however many 429 answers
\* came first.
C17_Deterministic ==
    LET names == EntityList(relics_json.content, items_json.content)
    IN  /\ Gathered =>
              FileOf(item_api_uri) = Data(Answered(item_api_uri, names, policy))
        /\ (ValuationRan /\ item_api_uri = "statistics") =>
              LET rs == CalculateRelicValues(FALSE, orders_json.content,
                            Answered("statistics", names, policy),
                            relics_json.content)
              IN  /\ Cardinality(rs) = 1
                  /\ \A r \in rs :
                        /\ fault = r.fault
                        /\ sorted_relics_json = r.sorted
                        /\ profit_relics_json = r.profit

\* C17 witness: both rankings were written from statistics fetched in this
\* run, with a 429 retried and the tasks completing in another order than
\* they were created in.
C17_Witness ==
    /\ ValuationRan
    /\ item_api_uri = "statistics"
    /\ fault = "none"
    /\ profit_relics_json.state = "data"
    /\ \E e \in DOMAIN throttles : throttles[e] > 0
    /\ res # tasks

\* C18 as stated: the elements of the snapshot written are in the order
\* the entities' requests completed in.
C18_CompletionOrder ==
    Gathered =>
        FileOf(item_api_uri).content = [i \in 1..Len(res) |-> results[res[i]]]

\* C18 as amended: the elements of the snapshot written are in the order
\* the requests were created in, the Intact relics in catalog order and
\* then the items in catalog order: element i is what the i-th of them
\* returned, whatever order they completed in.
C18_CreationOrder ==
    Gathered =>
        LET file == FileOf(item_api_uri).content
            relics == relics_json.content
            items == items_json.content
            intact == SelectSeq(relics, LAMBDA relic : InIntactState(relic.relicName))
            created == [i \in 1..(Len(intact) + Len(items)) |->
                           IF i <= Len(intact) THEN intact[i].relicName
                           ELSE items[i - Len(intact)].itemName]
        IN  /\ Len(file) = Len(created)
            /\ \A i \in 1..Len(file) :
                  /\ file[i] = results[created[i]]
                  /\ file[i] # NoData => Keys(file[i]) = {created[i]}
            /\ \A i, j \in 1..Len(res) : i < j => res[i] # res[j]
            /\ Range(res) = Range(created)

\* C18 witness: a snapshot was written whose tasks completed in another
\* order than they were created in, the last created first, and whose
\* elements in completion order would be another list.
C18_Witness ==
    /\ Gathered
    /\ Len(res) > 1
    /\ res[1] = tasks[Len(tasks)]
    /\ FileOf(item_api_uri).content # [i \in 1..Len(res) |-> results[res[i]]]

\* C19: a permit is out exactly for every task admitted and not yet
\* returned, so all pool_size permits are free whenever no phase is running;
\* and a phase in which the server ends every entity's 429 answers with
\* another status ends: its snapshot is written, with all permits free, and
\* main goes on to the next stage.
C19_TerminatesWithFullPool ==
    /\ [](sem + Cardinality(Admitted) = pool_size)
    /\ [](~gathering => sem = pool_size)
    /\ \A uri \in Uris :
          (/\ main_pc = uri
           /\ gathering
           /\ \A e \in DOMAIN policy : policy[e] # Throttled)
              ~> (/\ main_pc = After(uri)
                  /\ ~gathering
                  /\ FileOf(uri).state = "data"
                  /\ sem = pool_size)

\* C19 witness: the orders phase, the second of the run, has ended with all
\* permits free after tasks waited for a slot, a 429 was retried, an entity
\* failed and another succeeded.
C19_Witness ==
    /\ Gathered
    /\ item_api_uri = "orders"
    /\ statistics_json.state = "data"
    /\ sem = pool_size
    /\ Len(tasks) > pool_size
    /\ \E e \in DOMAIN pc : throttles[e] > 0 /\ policy[e] = Ok
    /\ \E e \in DOMAIN pc : policy[e] \in ErrorStatuses /\ results[e] = NoData

-----------------------------------------------------------------------------
(* Claims about the rankings *)

\* a >= b on floats: False when either is nan
FGe(a, b) == a.k # "nan" /\ b.k # "nan" /\ ~FLt(a, b)

\* names holds every relic of the catalog exactly once
EveryRelicOnce(names) ==
    /\ Len(names) = Len(relics_json.content)
    /\ \A i \in 1..Len(relics_json.content) :
          Cardinality({k \in 1..Len(names) :
                          names[k] = relics_json.content[i].relicName}) = 1

\* C16: after a valuation that completed, sorted_relics.json and
\* profit_relics.json each hold every relic of the catalog exactly once, all
\* of them, each in non-increasing order of its metric.
C16_FullSortedRankings ==
    (ValuationRan /\ fault = "none") =>
        /\ sorted_relics_json.state = "data"
        /\ profit_relics_json.state = "data"
        /\ LET sorted == sorted_relics_json.content
               rows == profit_relics_json.content
           IN  /\ EveryRelicOnce([k \in 1..Len(sorted) |-> sorted[k].relicName])
               /\ EveryRelicOnce([k \in 1..Len(rows) |-> rows[k][1]])
               /\ \A k \in 1..(Len(sorted) - 1) :
                     FGe(sorted[k].value, sorted[k + 1].value)
               /\ \A k \in 1..(Len(rows) - 1) : FGe(rows[k][2], rows[k + 1][2])

\* C20: calculate_relic_values never writes relics.json, where every value
\* is the 0 get_relics wrote; so a valuation run again in the same mode on
\* the same files, with no refresh of the catalog between, writes the
\* rankings the run before wrote, and ends as it ended.
C20_NoAccumulation ==
    /\ [](relics_json.state = "data" =>
             \A i \in 1..Len(relics_json.content) :
                 relics_json.content[i].value = Fin(0))
    /\ [][ (/\ main_pc = "calculate"
             /\ main_pc' # "calculate"
             /\ live' = live
             /\ sorted_relics_json.state = "data") =>
                /\ sorted_relics_json' = sorted_relics_json
                /\ profit_relics_json.state = "data" =>
                       profit_relics_json' = profit_relics_json
                /\ relics_json' = relics_json
          ]_vars

\* C20 witness: the program has been run three times within 24 hours, and
\* the last valuation wrote both rankings, with a relic of finite value
\* that is not zero.
C20_Witness ==
    /\ now = LastRun + 3
    /\ main_pc = "menu"
    /\ fault = "none"
    /\ profit_relics_json.state = "data"
    /\ \E k \in 1..Len(sorted_relics_json.content) :
          /\ sorted_relics_json.content[k].value.k = "fin"
          /\ sorted_relics_json.content[k].value.n > 0


=============================================================================
